---- MODULE Spec2Model ----
(***************************************************************************)
(* Recording session of the GPS track recorder (trackingService): the      *)
(* active-track slot and the history list kept in localStorage, and the    *)
(* operations startTrack, addPointToTrack, stopTrack and deleteTrack; the   *)
(* recorder view (TrackRecorderView) that drives them from its buttons and *)
(* the geolocation callbacks; and prepareTrackData of trackUtils.          *)
(*                                                                         *)
(* Units.  Timestamps are ISO strings in the source; they are compared     *)
(* only through `new Date(a) - new Date(b)`, so a timestamp is modelled by *)
(* its epoch value in milliseconds.  Valid fixes lie on one meridian       *)
(* (longitude 0), where the haversine distance is R * |dLat|; a latitude   *)
(* is given as its arc length in metres from the equator, so the distance  *)
(* of two valid points is |lat2 - lat1| metres.  track.duration (seconds)  *)
(* is held in thousandths of a second, point.speed (m/s) in thousandths of *)
(* a metre per second (truncated).                                         *)
(*                                                                         *)
(* The repository holds three copies of trackingService that differ in     *)
(* the admission interval, the speed stored with a point and the work      *)
(* done by stopTrack; `variant` says which copy is running.                *)
(***************************************************************************)
EXTENDS Integers, Sequences, FiniteSets, TLC

VARIABLES
    variant,      \* which copy of trackingService is loaded
    now,          \* Date.now(), in milliseconds
    current,      \* localStorage[CURRENT_TRACK_KEY]: <<>> (absent) or <<track>>
    history,      \* localStorage[STORAGE_KEY]: the list of finished tracks
    lastOp,       \* the last call made and how it ended
    chrono,       \* no fix given to the active track was older than its last point
    steps,        \* number of calls made so far
    isRecording,  \* recorder view: isRecording.value
    isPaused,     \* recorder view: isPaused.value
    watchId,      \* recorder view: the geolocation watch, Null when there is none
    lateFix,      \* a position callback was queued before its watch was cleared
    speedHistory, \* recorder view: speedHistory.value, in thousandths of a km/h
    timeLabels,   \* recorder view: timeLabels.value
    maxSpeed,     \* recorder view: maxSpeed.value
    currentTrackRef, \* recorder view: currentTrack.value, <<>> for null
    heap,         \* trackUtils: the track objects, a reference being an index
    arg,          \* trackUtils: the reference the caller holds, Null for no track
    cleaned,      \* trackUtils: the calls of prepareTrackData made, [track, ret]
    given,        \* the argument a caller has for a function without state
    result,       \* <<>> before that function is called, then <<its return value>>
    playbackActive,    \* track visualizer: playbackActive.value
    currentPointIndex, \* track visualizer: currentPointIndex.value, from 0
    playbackSpeed,     \* track visualizer: playbackSpeed.value, in halves (2 is 1x)
    playbackTimer,     \* track visualizer: the id setTimeout returned last, or Null
    timeouts           \* the timeouts set and neither fired nor cleared: [id, delay]

viewVars ==
    <<isRecording, isPaused, watchId, lateFix, speedHistory, timeLabels, maxSpeed,
      currentTrackRef>>

cleanerVars == <<heap, arg, cleaned>>

callVars == <<given, result>>

playVars == <<playbackActive, currentPointIndex, playbackSpeed, playbackTimer, timeouts>>

vars ==
    <<variant, now, current, history, lastOp, chrono, steps, viewVars, cleanerVars,
      callVars, playVars>>

----------------------------------------------------------------------------
(* Bounds of the model *)

MaxSteps == 4

\* points of a track given to prepareTrackData, and calls made of it
MaxPoints == 3
MaxCalls == 2

----------------------------------------------------------------------------
(* JavaScript values that are not finite numbers *)

NaN == -1000001
Undefined == -1000002
Null == -1000003
Infinity == -1000004

NonNumbers == {NaN, Undefined, Null, Infinity}

\* Number(v) as applied by the arithmetic operators: null is 0, undefined is NaN
ToNumber(v) == IF v = Null THEN 0 ELSE IF v = Undefined THEN NaN ELSE v

isNaN(v) == ToNumber(v) = NaN

\* a || null
OrNull(v) == IF v \in {Undefined, Null, NaN, 0} THEN Null ELSE v

\* a < b on numbers: false as soon as one side is NaN
LessThan(a, b) ==
    LET x == ToNumber(a)
        y == ToNumber(b)
    IN  /\ x # NaN /\ y # NaN
        /\ x # Infinity
        /\ (y = Infinity \/ x < y)

\* a + b
Plus(a, b) ==
    LET x == ToNumber(a)
        y == ToNumber(b)
    IN  IF x = NaN \/ y = NaN THEN NaN
        ELSE IF x = Infinity \/ y = Infinity THEN Infinity
        ELSE x + y

\* JSON.parse(JSON.stringify(v)) of a number-valued property: NaN and
\* Infinity are written as null; an undefined property is left out and
\* reads back as undefined
JsonNumber(v) == IF v \in {NaN, Infinity} THEN Null ELSE v

JsonPoint(p) ==
    [p EXCEPT !.latitude = JsonNumber(@), !.longitude = JsonNumber(@),
              !.altitude = JsonNumber(@), !.speed = JsonNumber(@),
              !.accuracy = JsonNumber(@)]

JsonSpeedData(sd) ==
    [sd EXCEPT !.history = [i \in DOMAIN @ |-> JsonNumber(@[i])]]

JsonTrack(t) ==
    [t EXCEPT !.points = [i \in DOMAIN @ |-> JsonPoint(@[i])],
              !.distance = JsonNumber(@), !.duration = JsonNumber(@),
              !.speedData = [i \in DOMAIN @ |-> JsonSpeedData(@[i])]]

----------------------------------------------------------------------------
(* Configuration *)

MINIMUM_DISTANCE == 10

Variants == {1, 2, 3}

\* the elapsed time, in milliseconds, from which a close fix is admitted
MinInterval(v) == IF v = 3 THEN 1000 ELSE 60000

Abs(n) == IF n < 0 THEN 0 - n ELSE n

calculateDistance(lat1, lon1, lat2, lon2) ==
    LET a1 == ToNumber(lat1)
        o1 == ToNumber(lon1)
        a2 == ToNumber(lat2)
        o2 == ToNumber(lon2)
    IN  IF {a1, o1, a2, o2} \cap {NaN, Infinity} # {} THEN NaN
        ELSE Abs(a2 - a1)

----------------------------------------------------------------------------
(* Inputs *)

\* the values Date.now() takes
Times == {0, 1000}

Names == {"A"}

\* the values of the random suffix of an id
Rnds == {1, 2}

Fix(lat, lon, alt, ts) ==
    [latitude |-> lat, longitude |-> lon, accuracy |-> 5, altitude |-> alt,
     timestamp |-> ts, speed |-> 0]

\* well-formed fixes: 0 m, 2 m and 12 m along the meridian at 0 s, 0.1 s, 2 s;
\* the first one is taken at sea level (altitude 0)
ValidFixes ==
    {Fix(0, 0, 0, 0), Fix(2, 0, Undefined, 100), Fix(2, 0, Undefined, 2000),
     Fix(12, 0, Undefined, 100), Fix(2, 0, 7, Undefined)}

\* fixes with a missing, NaN or infinite coordinate
MalformedFixes ==
    {Fix(NaN, 0, Undefined, 2000), Fix(Infinity, 0, Undefined, 2000),
     Fix(12, Undefined, Undefined, 100)}

Fixes == ValidFixes \cup MalformedFixes

LiveSpeedData ==
    [history |-> <<18000>>, timeLabels |-> <<1>>,
     averageSpeed |-> 18000, maxSpeed |-> 18000]

\* extraData of stopTrack: <<>> when the argument is omitted
ExtraDatas ==
    {<<>>, <<[speedData |-> <<LiveSpeedData>>]>>,
     <<[active |-> TRUE, endTime |-> Null]>>}

----------------------------------------------------------------------------
(* Storage *)

getCurrentTrack == current

getAllTracks == history

saveTrackToHistory(tracks, track) == Append(tracks, JsonTrack(track))

\* an id made of the random suffix alone
generateIdWithoutClock(t, rnd) == <<0, rnd>>

\* 'track_' + Date.now() + '_' + Math.random().toString(36).substr(2, 9)
generateId(t, rnd) == <<t, rnd>>

----------------------------------------------------------------------------
(* stopTrack *)

\* distance / seconds, in thousandths of a metre per second
SpeedOf(distance, timeDiff) ==
    IF distance = NaN THEN NaN ELSE (distance * 1000000) \div timeDiff

\* speed * 3.6, in thousandths of a km/h
ToKmh(speed) == (speed * 36) \div 10

\* toLocaleTimeString(hour, minute, second): the second of the day
TimeLabel(ts) == (ts \div 1000) % 86400

\* n.toFixed(1), as a number of tenths
ToFixed1(milli) == (milli + 50) \div 100

RECURSIVE SumSeq(_)
SumSeq(s) == IF s = <<>> THEN 0 ELSE Head(s) + SumSeq(Tail(s))

RECURSIVE MaxSeq(_)
MaxSeq(s) ==
    IF Len(s) = 1 THEN s[1]
    ELSE LET m == MaxSeq(Tail(s)) IN IF s[1] > m THEN s[1] ELSE m

\* Object.assign(track, extraData)
ObjectAssign(track, extraData) ==
    [k \in DOMAIN track |-> IF k \in DOMAIN extraData THEN extraData[k] ELSE track[k]]

\* which stored speeds stopTrack recomputes
NeedsSpeed(v, speed) ==
    CASE v = 1 -> FALSE
      [] v = 2 -> speed \in {Null, Undefined}
      [] OTHER -> speed \in {Null, Undefined, 0}

\* the callback of points.map in stopTrack
BackfillPoint(v, points, i) ==
    LET point == points[i]
    IN  IF NeedsSpeed(v, point.speed) /\ i > 1
        THEN LET prevPoint == points[i - 1]
                 distance == calculateDistance(prevPoint.latitude, prevPoint.longitude,
                                               point.latitude, point.longitude)
                 timeDiff == point.timestamp - prevPoint.timestamp
             IN  IF timeDiff > 0
                 THEN [point EXCEPT !.speed = SpeedOf(distance, timeDiff)]
                 ELSE point
        ELSE point

HasValidSpeed(point) == point.speed \notin {Null, Undefined} /\ ~isNaN(point.speed)

ValidSpeedPoints(points) == SelectSeq(points, HasValidSpeed)

BuildSpeedData(points) ==
    LET valid == ValidSpeedPoints(points)
        speedsKmh == [i \in DOMAIN valid |-> ToKmh(valid[i].speed)]
        labels == [i \in DOMAIN valid |-> TimeLabel(valid[i].timestamp)]
    IN  [history |-> speedsKmh, timeLabels |-> labels,
         averageSpeed |-> ToFixed1(SumSeq(speedsKmh) \div Len(speedsKmh)),
         maxSpeed |-> ToFixed1(MaxSeq(speedsKmh))]

\* stopTrack without `endTime = new Date().toISOString()`
FinalizeWithoutEndTime(v, track, extraData, t) ==
    [track EXCEPT !.active = FALSE]

\* the track that stopTrack builds from the active track
Finalize(v, track, extraData, t) ==
    LET stopped == [track EXCEPT !.active = FALSE, !.endTime = t]
        merged == IF extraData # <<>> THEN ObjectAssign(stopped, extraData[1]) ELSE stopped
        points == IF v = 1 THEN merged.points
                  ELSE [i \in DOMAIN merged.points |-> BackfillPoint(v, merged.points, i)]
        withPoints == [merged EXCEPT !.points = points]
    IN  IF v = 3 /\ points # <<>> /\ ValidSpeedPoints(points) # <<>>
           /\ withPoints.speedData = <<>>
        THEN [withPoints EXCEPT !.speedData = <<BuildSpeedData(points)>>]
        ELSE withPoints

\* stopTrack as a function of the store: the value returned and the store left
stopTrackResult(v, cur, tracks, extraData, t) ==
    IF cur = <<>> \/ ~cur[1].active
    THEN [ret |-> <<>>, current |-> cur, history |-> tracks]
    ELSE LET currentTrack == Finalize(v, cur[1], extraData, t)
         IN  [ret |-> <<currentTrack>>, current |-> <<>>,
              history |-> saveTrackToHistory(tracks, currentTrack)]

\* a call and its outcome: "null" (returned null), "ignored" (fix not
\* stored), "done" (store updated), "restarted" (startTrack stopped the
\* active track first), "true"/"false" (deleteTrack), "threw" (the store
\* threw and the exception left the call)
Call(op, outcome) == [op |-> op, outcome |-> outcome]

stopTrack(extraData) ==
    LET r == stopTrackResult(variant, getCurrentTrack, getAllTracks, extraData, now)
    IN  /\ steps < MaxSteps
        /\ steps' = steps + 1
        /\ current' = r.current
        /\ history' = r.history
        /\ lastOp' = Call("stopTrack", IF r.ret = <<>> THEN "null" ELSE "done")
        /\ chrono' = (r.ret # <<>> \/ chrono)
        /\ UNCHANGED <<variant, now>>

----------------------------------------------------------------------------
(* startTrack *)

NewTrack(id, name, t) ==
    [id |-> id,
     name |-> IF name = "" THEN "Trajet du" ELSE name,
     startTime |-> t, endTime |-> Null, points |-> <<>>,
     distance |-> 0, duration |-> 0, active |-> TRUE, speedData |-> <<>>]

startTrack(name, rnd) ==
    LET stopped == IF getCurrentTrack # <<>>
                   THEN stopTrackResult(variant, current, history, <<>>, now)
                   ELSE [ret |-> <<>>, current |-> current, history |-> history]
        track == NewTrack(generateId(now, rnd), name, now)
    IN  /\ steps < MaxSteps
        /\ steps' = steps + 1
        /\ history' = stopped.history
        /\ current' = <<JsonTrack(track)>>
        /\ lastOp' = Call("startTrack", IF getCurrentTrack # <<>> THEN "restarted" ELSE "done")
        /\ chrono' = TRUE
        /\ UNCHANGED <<variant, now>>

----------------------------------------------------------------------------
(* addPointToTrack *)

\* what navigator.getBattery() resolves with: battery.level * 100
BatteryLevel == 80

\* batteryLevel when the point is built: the callback of the promise that
\* assigns it runs only after addPointToTrack has returned
batteryLevel(level) == Null

\* the point built from the position; only the third copy leaves the speed
\* to be computed from the previous point
NewPoint(v, position, t) ==
    [latitude |-> position.latitude,
     longitude |-> position.longitude,
     accuracy |-> position.accuracy,
     altitude |-> OrNull(position.altitude),
     timestamp |-> IF position.timestamp = Undefined THEN t ELSE position.timestamp,
     speed |-> IF v = 3 THEN Null ELSE OrNull(position.speed),
     battery |-> batteryLevel(BatteryLevel)]

\* the filter with the elapsed time taken in seconds
IgnoredInSeconds(v, distance, timeDiff) ==
    LessThan(distance, MINIMUM_DISTANCE) /\ timeDiff < MinInterval(v) \div 1000

\* the admission filter: too close and too soon
Ignored(v, distance, timeDiff) ==
    LessThan(distance, MINIMUM_DISTANCE) /\ timeDiff < MinInterval(v)

PointSpeed(v, point, distance, timeDiff) ==
    IF v # 3 THEN point.speed
    ELSE IF timeDiff > 0 THEN SpeedOf(distance, timeDiff) ELSE 0

\* the duration taken from the previous point instead of the first
UpdateDurationFromPrevious(track) ==
    IF Len(track.points) > 1
    THEN [track EXCEPT !.duration =
             track.points[Len(track.points)].timestamp
                - track.points[Len(track.points) - 1].timestamp]
    ELSE track

UpdateDuration(track) ==
    IF Len(track.points) > 1
    THEN [track EXCEPT !.duration =
             track.points[Len(track.points)].timestamp - track.points[1].timestamp]
    ELSE track

\* addPointToTrack as a function of the active track: whether the active
\* record is written, and the track returned
addPointResult(v, currentTrack, position, t) ==
    LET point == NewPoint(v, position, t)
    IN  IF Len(currentTrack.points) > 0
        THEN LET lastPoint == currentTrack.points[Len(currentTrack.points)]
                 distance == calculateDistance(lastPoint.latitude, lastPoint.longitude,
                                               point.latitude, point.longitude)
                 timeDiff == point.timestamp - lastPoint.timestamp
             IN  IF Ignored(v, distance, timeDiff)
                 THEN [saved |-> FALSE, track |-> currentTrack]
                 ELSE [saved |-> TRUE,
                       track |-> UpdateDuration(
                          [currentTrack EXCEPT
                             !.distance = Plus(@, distance),
                             !.points = Append(@, [point EXCEPT !.speed =
                                          PointSpeed(v, point, distance, timeDiff)])])]
        ELSE [saved |-> TRUE,
              track |-> UpdateDuration(
                 [currentTrack EXCEPT
                    !.points = Append(@, [point EXCEPT !.speed =
                                             IF v = 3 THEN 0 ELSE point.speed])])]

\* the fix is not older than the last stored point
InOrder(track, ts) ==
    track.points = <<>> \/ ts >= track.points[Len(track.points)].timestamp

\* addPointToTrack starting a track of its own when none is active
addPointToTrackAutoStart(position) ==
    /\ steps < MaxSteps
    /\ steps' = steps + 1
    /\ LET currentTrack == IF getCurrentTrack = <<>>
                           THEN NewTrack(generateId(now, 1), "", now)
                           ELSE getCurrentTrack[1]
           r == addPointResult(variant, currentTrack, position, now)
       IN  /\ current' = IF r.saved THEN <<JsonTrack(r.track)>> ELSE current
           /\ lastOp' = Call("addPointToTrack", IF r.saved THEN "done" ELSE "ignored")
           /\ chrono' = (chrono /\ InOrder(currentTrack,
                                           NewPoint(variant, position, now).timestamp))
    /\ UNCHANGED <<variant, now, history>>

addPointToTrack(position) ==
    /\ steps < MaxSteps
    /\ steps' = steps + 1
    /\ IF getCurrentTrack = <<>> \/ ~getCurrentTrack[1].active
       THEN /\ lastOp' = Call("addPointToTrack", "null")
            /\ UNCHANGED <<current, chrono>>
       ELSE LET r == addPointResult(variant, getCurrentTrack[1], position, now)
            IN  /\ current' = IF r.saved THEN <<JsonTrack(r.track)>> ELSE current
                /\ lastOp' = Call("addPointToTrack", IF r.saved THEN "done" ELSE "ignored")
                
                /\ chrono' = (chrono /\ InOrder(getCurrentTrack[1],
                                                NewPoint(variant, position, now).timestamp))
    /\ UNCHANGED <<variant, now, history>>

----------------------------------------------------------------------------
(* deleteTrack *)

deleteTrack(id) ==
    LET tracks == getAllTracks
        filteredTracks == SelectSeq(tracks, LAMBDA track : track.id # id)
    IN  /\ steps < MaxSteps
        /\ steps' = steps + 1
        /\ history' = IF Len(filteredTracks) # Len(tracks) THEN filteredTracks ELSE history
        /\ lastOp' = Call("deleteTrack",
                          IF Len(filteredTracks) # Len(tracks) THEN "true" ELSE "false")
        /\ UNCHANGED <<variant, now, current, chrono>>

\* the ids a caller can name: those of the stored tracks and one of no track
KnownIds ==
    {history[i].id : i \in DOMAIN history} \cup {current[i].id : i \in DOMAIN current}
    \cup {generateId(0, 0)}

----------------------------------------------------------------------------
(* The clock *)

Tick ==
    /\ now' \in Times
    /\ now' > now
    /\ UNCHANGED <<variant, current, history, lastOp, chrono, steps>>

----------------------------------------------------------------------------
(* Calls during which localStorage.setItem throws (quota exceeded) *)

STORAGE_KEY == "geolocator_tracks"
CURRENT_TRACK_KEY == "geolocator_current_track"

\* stopTrack removing the active record before it writes the history
stopTrackClearingFirst(v, cur, tracks, extraData, t) ==
    IF cur = <<>> \/ ~cur[1].active
    THEN [threw |-> FALSE, current |-> cur, history |-> tracks]
    ELSE [threw |-> TRUE, current |-> <<>>, history |-> tracks]

\* stopTrack when the write of the history throws: saveTrackToHistory is
\* left at setItem, before the history is replaced and before removeItem
stopTrackThrowing(v, cur, tracks, extraData, t) ==
    IF cur = <<>> \/ ~cur[1].active
    THEN [threw |-> FALSE, current |-> cur, history |-> tracks]
    ELSE [threw |-> TRUE, current |-> cur, history |-> tracks]

stopTrackThrows(extraData) ==
    LET r == stopTrackThrowing(variant, getCurrentTrack, getAllTracks, extraData, now)
    IN  /\ steps < MaxSteps
        /\ r.threw
        /\ steps' = steps + 1
        /\ current' = r.current
        /\ history' = r.history
        /\ lastOp' = Call("stopTrack", "threw")
        /\ UNCHANGED <<variant, now, chrono>>

\* startTrack when the write of `key` throws: that of the history made by
\* stopTrack for the previous track, or that of the new active record
startTrackThrows(name, rnd, key) ==
    /\ steps < MaxSteps
    /\ steps' = steps + 1
    /\ lastOp' = Call("startTrack", "threw")
    /\ IF key = STORAGE_KEY
       THEN LET r == stopTrackThrowing(variant, current, history, <<>>, now)
            IN  /\ getCurrentTrack # <<>>
                /\ r.threw
                /\ current' = r.current
                /\ history' = r.history
                /\ UNCHANGED chrono
       ELSE LET stopped == IF getCurrentTrack # <<>>
                           THEN stopTrackResult(variant, current, history, <<>>, now)
                           ELSE [ret |-> <<>>, current |-> current, history |-> history]
            IN  /\ current' = stopped.current
                /\ history' = stopped.history
                /\ chrono' = (stopped.ret # <<>> \/ chrono)
    /\ UNCHANGED <<variant, now>>

\* addPointToTrack when the write of the active record throws
addPointToTrackThrows(position) ==
    /\ steps < MaxSteps
    /\ getCurrentTrack # <<>>
    /\ getCurrentTrack[1].active
    /\ addPointResult(variant, getCurrentTrack[1], position, now).saved
    /\ steps' = steps + 1
    /\ lastOp' = Call("addPointToTrack", "threw")
    /\ UNCHANGED <<variant, now, current, history, chrono>>

----------------------------------------------------------------------------
(* The recorder view *)

MAX_HISTORY_POINTS == 30

\* what navigator.geolocation.watchPosition returns
watchPosition == 1

\* position.coords as the browser gives them: speed and altitude are null
\* when the device has none
Coords(lat, speed) ==
    [latitude |-> lat, longitude |-> 0, accuracy |-> 5, altitude |-> Null, speed |-> speed]

\* 0 m, 2 m and 12 m along the meridian, the last with a speed of 5 m/s,
\* and a reading without latitude
GeoCoords == {Coords(0, Null), Coords(2, Null), Coords(12, 5000), Coords(NaN, Null)}

\* currentPosition.value as handlePositionUpdate builds it
currentPosition(coords, t) ==
    [latitude |-> coords.latitude,
     longitude |-> coords.longitude,
     accuracy |-> IF coords.accuracy \in {0, NaN, Null, Undefined} THEN 5
                  ELSE coords.accuracy,
     altitude |-> coords.altitude,
     speed |-> IF coords.speed # Null THEN coords.speed ELSE 0,
     timestamp |-> t]

\* speedHistory after push(currentSpeed) and the cut to the last 30 values
PushSpeed(speeds, speedKmh) ==
    LET pushed == Append(speeds, speedKmh)
    IN  IF Len(pushed) > MAX_HISTORY_POINTS
        THEN SubSeq(pushed, Len(pushed) - MAX_HISTORY_POINTS + 1, Len(pushed))
        ELSE pushed

\* speedHistory.slice(-MAX_HISTORY_POINTS) after a push
LastValues(values) ==
    IF Len(values) > MAX_HISTORY_POINTS
    THEN SubSeq(values, Len(values) - MAX_HISTORY_POINTS + 1, Len(values))
    ELSE values

\* averageSpeed.value: reset with speedHistory and recomputed after every
\* push as sum / length
averageSpeed ==
    IF speedHistory = <<>> THEN 0 ELSE SumSeq(speedHistory) \div Len(speedHistory)

\* what startTrack returns: the track object it built
StartedTrack(name, rnd) == <<NewTrack(generateId(now, rnd), name, now)>>

\* what addPointToTrack returns: null without an active track, otherwise the
\* track object, with the point when it was stored
AddedTrack(position) ==
    IF getCurrentTrack = <<>> \/ ~getCurrentTrack[1].active THEN <<>>
    ELSE <<addPointResult(variant, getCurrentTrack[1], position, now).track>>

\* the speedData object that stopRecording puts on currentTrack.value
ViewSpeedData ==
    [history |-> speedHistory, timeLabels |-> timeLabels,
     maxSpeed |-> maxSpeed, averageSpeed |-> averageSpeed]

\* navigator.geolocation.clearWatch(watchId); watchId = null: a callback of
\* the watch may already be queued
ClearWatch ==
    IF watchId # Null /\ watchId # 0
    THEN watchId' = Null /\ lateFix' \in {lateFix, TRUE}
    ELSE UNCHANGED <<watchId, lateFix>>

\* a handler of the view that calls nothing of the service
ViewOnly(handler, outcome) ==
    /\ steps < MaxSteps
    /\ steps' = steps + 1
    /\ lastOp' = Call(handler, outcome)
    /\ UNCHANGED <<variant, now, current, history, chrono>>

startRecording(name, rnd) ==
    /\ speedHistory' = <<>>
    /\ timeLabels' = <<>>
    /\ currentTrackRef' = StartedTrack(name, rnd)
    /\ startTrack(name, rnd)
    /\ isRecording' = TRUE
    /\ isPaused' = FALSE
    /\ maxSpeed' = 0
    /\ watchId' = watchPosition
    /\ UNCHANGED lateFix

pauseRecording ==
    /\ ViewOnly("pauseRecording", "done")
    /\ isPaused' = TRUE
    /\ ClearWatch
    /\ UNCHANGED <<isRecording, speedHistory, timeLabels, maxSpeed, currentTrackRef>>

resumeRecording ==
    /\ ViewOnly("resumeRecording", "done")
    /\ isPaused' = FALSE
    /\ watchId' = watchPosition
    /\ UNCHANGED <<isRecording, lateFix, speedHistory, timeLabels, maxSpeed,
                   currentTrackRef>>

\* speedData is put on the view's own track object and stopTrack is called
\* without an argument; router.push then leaves the view, which is mounted
\* anew, not recording, when the user comes back
stopRecording(confirmed) ==
    IF ~confirmed
    THEN ViewOnly("stopRecording", "declined") /\ UNCHANGED viewVars
    ELSE /\ ClearWatch
         /\ currentTrackRef' =
               IF currentTrackRef # <<>>
               THEN <<[currentTrackRef[1] EXCEPT !.speedData = <<ViewSpeedData>>]>>
               ELSE currentTrackRef
         /\ stopTrack(<<>>)
         /\ isRecording' = FALSE
         /\ isPaused' = FALSE
         /\ UNCHANGED <<speedHistory, timeLabels, maxSpeed>>

cancelRecording(confirmed) ==
    IF isRecording /\ ~confirmed
    THEN ViewOnly("cancelRecording", "declined") /\ UNCHANGED viewVars
    ELSE /\ ClearWatch
         /\ IF isRecording THEN stopTrack(<<>>) ELSE ViewOnly("cancelRecording", "done")
         /\ isRecording' = FALSE
         /\ isPaused' = FALSE
         /\ UNCHANGED <<speedHistory, timeLabels, maxSpeed, currentTrackRef>>

\* currentSpeed.value = speed * 3.6
currentSpeed(coords) == ToKmh(currentPosition(coords, now).speed)

\* handlePositionUpdate forwarding every fix, paused or not
handlePositionUpdateUngated(coords, late) ==
    /\ IF late THEN lateFix /\ lateFix' = FALSE
               ELSE watchId # Null /\ UNCHANGED lateFix
    /\ IF isNaN(coords.latitude) \/ isNaN(coords.longitude)
       THEN /\ ViewOnly("handlePositionUpdate", "invalid")
            /\ UNCHANGED <<speedHistory, timeLabels, maxSpeed, currentTrackRef>>
       ELSE /\ maxSpeed' = IF currentSpeed(coords) > maxSpeed
                           THEN currentSpeed(coords) ELSE maxSpeed
            /\ currentTrackRef' = AddedTrack(currentPosition(coords, now))
            /\ addPointToTrack(currentPosition(coords, now))
            /\ timeLabels' = LastValues(Append(timeLabels, TimeLabel(now)))
            /\ speedHistory' = PushSpeed(speedHistory, currentSpeed(coords))
    /\ UNCHANGED <<isRecording, isPaused, watchId>>

\* the success callback of the watch; `late` when it was queued before the
\* watch was cleared
handlePositionUpdate(coords, late) ==
    /\ IF late THEN lateFix /\ lateFix' = FALSE
               ELSE watchId # Null /\ UNCHANGED lateFix
    /\ IF isNaN(coords.latitude) \/ isNaN(coords.longitude)
       THEN /\ ViewOnly("handlePositionUpdate", "invalid")
            /\ UNCHANGED <<speedHistory, timeLabels, maxSpeed, currentTrackRef>>
       ELSE /\ maxSpeed' = IF currentSpeed(coords) > maxSpeed
                           THEN currentSpeed(coords) ELSE maxSpeed
            /\ IF isRecording /\ ~isPaused
               THEN /\ currentTrackRef' = AddedTrack(currentPosition(coords, now))
                    /\ addPointToTrack(currentPosition(coords, now))
                    /\ timeLabels' = LastValues(Append(timeLabels, TimeLabel(now)))
                    /\ speedHistory' = PushSpeed(speedHistory, currentSpeed(coords))
               ELSE /\ ViewOnly("handlePositionUpdate", "not forwarded")
                    /\ UNCHANGED <<speedHistory, timeLabels, currentTrackRef>>
    /\ UNCHANGED <<isRecording, isPaused, watchId>>

\* the error callback of the watch
handlePositionError ==
    /\ watchId # Null
    /\ IF isRecording
       THEN /\ ViewOnly("handlePositionError", "paused")
            /\ isPaused' = TRUE
            /\ ClearWatch
            /\ UNCHANGED <<isRecording, speedHistory, timeLabels, maxSpeed,
                           currentTrackRef>>
       ELSE ViewOnly("handlePositionError", "done") /\ UNCHANGED viewVars

----------------------------------------------------------------------------
(* trackUtils: prepareTrackData *)

RawPoint(lat, ts, speed) ==
    [latitude |-> lat, longitude |-> 0, accuracy |-> 5, altitude |-> Null,
     timestamp |-> ts, speed |-> speed, battery |-> Null]

\* points 12 m apart, two of them with the same timestamp, without speed,
\* with speed 0 and with a speed of 5 m/s; a point with a NaN latitude and
\* a point without latitude
RawPoints ==
    {RawPoint(0, 0, Null), RawPoint(12, 1000, 0), RawPoint(24, 1000, 5000),
     RawPoint(12, 2000, Undefined), RawPoint(NaN, 500, Null),
     RawPoint(Undefined, 500, Null)}

SeqsUpTo(S, n) == UNION {[1..k -> S] : k \in 0..n}

\* the tracks given to prepareTrackData: with 0 to MaxPoints points, and
\* one without a points property
RawTracks ==
    {[NewTrack(generateId(0, 1), "A", 0) EXCEPT !.points = points] :
        points \in SeqsUpTo(RawPoints, MaxPoints)}
    \cup {[id |-> generateId(0, 1), name |-> "A"]}

HasPoints(track) == "points" \in DOMAIN track /\ Len(track.points) # 0

\* a "clone" that is the object itself
SameObject(h, ref) == [heap |-> h, ref |-> ref]

\* JSON.parse(JSON.stringify(track)): a new object
JSONClone(h, ref) == [heap |-> Append(h, JsonTrack(h[ref])), ref |-> Len(h) + 1]

\* one step of a stable sort: point goes behind the points not later than it
InsertByTimestamp(sorted, point) ==
    LET k == Cardinality({i \in DOMAIN sorted : sorted[i].timestamp <= point.timestamp})
    IN  SubSeq(sorted, 1, k) \o <<point>> \o SubSeq(sorted, k + 1, Len(sorted))

\* points.sort((a, b) => new Date(a.timestamp) - new Date(b.timestamp))
RECURSIVE SortByTimestamp(_)
SortByTimestamp(points) ==
    IF points = <<>> THEN <<>>
    ELSE InsertByTimestamp(SortByTimestamp(SubSeq(points, 1, Len(points) - 1)),
                           points[Len(points)])

\* the predicate of points.filter
HasCoordinates(point) ==
    /\ point.latitude # Undefined
    /\ point.longitude # Undefined
    /\ ~isNaN(point.latitude)
    /\ ~isNaN(point.longitude)

\* !speed || speed === 0
NoSpeed(speed) == speed \in {Null, Undefined, NaN, 0}

\* distance / 1000 / timeDiffHours, in thousandths of a km/h
KmhOf(distance, timeDiffMs) == (distance * 3600000) \div timeDiffMs

\* the loop body turning every speed it keeps into km/h as well
FillSpeedConverting(points, i) ==
    LET currentPoint == points[i]
    IN  IF i > 1 /\ NoSpeed(currentPoint.speed)
        THEN LET prevPoint == points[i - 1]
                 distance == calculateDistance(prevPoint.latitude, prevPoint.longitude,
                                               currentPoint.latitude, currentPoint.longitude)
                 timeDiffMs == currentPoint.timestamp - prevPoint.timestamp
             IN  [currentPoint EXCEPT !.speed =
                     IF timeDiffMs > 0 THEN KmhOf(distance, timeDiffMs) ELSE 0]
        ELSE IF NoSpeed(currentPoint.speed) THEN currentPoint
        ELSE [currentPoint EXCEPT !.speed = ToKmh(@)]

\* the body of the loop over the points from the second on
FillSpeed(points, i) ==
    LET currentPoint == points[i]
    IN  IF i > 1 /\ NoSpeed(currentPoint.speed)
        THEN LET prevPoint == points[i - 1]
                 distance == calculateDistance(prevPoint.latitude, prevPoint.longitude,
                                               currentPoint.latitude, currentPoint.longitude)
                 timeDiffMs == currentPoint.timestamp - prevPoint.timestamp
             IN  [currentPoint EXCEPT !.speed =
                     IF timeDiffMs > 0 THEN KmhOf(distance, timeDiffMs) ELSE 0]
        ELSE currentPoint

\* prepareTrackData on the object `track` of the heap h: the heap it leaves
\* and the reference it returns
prepareTrackDataResult(h, track) ==
    IF track = Null \/ ~HasPoints(h[track])
    THEN [heap |-> h, ret |-> track]
    ELSE LET clone == JSONClone(h, track)
             cleanedTrack == clone.ref
             sorted == [clone.heap EXCEPT ![cleanedTrack].points = SortByTimestamp(@)]
             filtered == [sorted EXCEPT ![cleanedTrack].points = SelectSeq(@, HasCoordinates)]
         IN  [heap |-> [filtered EXCEPT ![cleanedTrack].points =
                           [i \in DOMAIN @ |-> FillSpeed(@, i)]],
              ret |-> cleanedTrack]

prepareTrackData(track) ==
    LET r == prepareTrackDataResult(heap, track)
    IN  /\ Len(cleaned) < MaxCalls
        /\ heap' = r.heap
        /\ cleaned' = Append(cleaned, [track |-> track, ret |-> r.ret])
        /\ UNCHANGED arg

\* the references a caller holds: its own track and the tracks returned
HeldTracks == {arg} \cup {cleaned[i].ret : i \in DOMAIN cleaned}

----------------------------------------------------------------------------

\* nothing stored, the view just mounted, no track given to trackUtils
Init ==
    /\ variant \in Variants
    /\ now = 0
    /\ current = <<>>
    /\ history = <<>>
    /\ lastOp = Call("init", "done")
    /\ chrono = TRUE
    /\ steps = 0
    /\ isRecording = FALSE
    /\ isPaused = FALSE
    /\ watchId = Null
    /\ lateFix = FALSE
    /\ speedHistory = <<>>
    /\ timeLabels = <<>>
    /\ maxSpeed = 0
    /\ currentTrackRef = <<>>
    /\ heap = <<>>
    /\ arg = Null
    /\ cleaned = <<>>
    /\ given = <<>>
    /\ result = <<>>
    /\ playbackActive = FALSE
    /\ currentPointIndex = 0
    /\ playbackSpeed = 2
    /\ playbackTimer = Null
    /\ timeouts = <<>>

\* the service called directly
Next ==
    \/ (\E name \in Names, rnd \in Rnds : startTrack(name, rnd))
          /\ UNCHANGED <<viewVars, cleanerVars, callVars, playVars>>
    \/ (\E position \in Fixes : addPointToTrack(position))
          /\ UNCHANGED <<viewVars, cleanerVars, callVars, playVars>>
    \/ (\E extraData \in ExtraDatas : stopTrack(extraData))
          /\ UNCHANGED <<viewVars, cleanerVars, callVars, playVars>>
    \/ (\E id \in KnownIds : deleteTrack(id))
          /\ UNCHANGED <<viewVars, cleanerVars, callVars, playVars>>
    \/ Tick /\ UNCHANGED <<viewVars, cleanerVars, callVars, playVars>>

Spec == Init /\ [][Next]_vars

\* the session on a store that can be full
NextStoreFails ==
    \/ (\E name \in Names, rnd \in Rnds : startTrack(name, rnd))
          /\ UNCHANGED <<viewVars, cleanerVars, callVars, playVars>>
    \/ (\E position \in ValidFixes : addPointToTrack(position))
          /\ UNCHANGED <<viewVars, cleanerVars, callVars, playVars>>
    \/ (\E extraData \in ExtraDatas : stopTrack(extraData))
          /\ UNCHANGED <<viewVars, cleanerVars, callVars, playVars>>
    \/ (\E extraData \in ExtraDatas : stopTrackThrows(extraData))
          /\ UNCHANGED <<viewVars, cleanerVars, callVars, playVars>>
    \/ (\E name \in Names, rnd \in Rnds, key \in {STORAGE_KEY, CURRENT_TRACK_KEY} :
          startTrackThrows(name, rnd, key))
          /\ UNCHANGED <<viewVars, cleanerVars, callVars, playVars>>
    \/ (\E position \in ValidFixes : addPointToTrackThrows(position))
          /\ UNCHANGED <<viewVars, cleanerVars, callVars, playVars>>
    \/ Tick /\ UNCHANGED <<viewVars, cleanerVars, callVars, playVars>>

SpecStoreFails == Init /\ [][NextStoreFails]_vars

\* the recorder view: the buttons shown are the calls the user can make
NextView ==
    \/ (~isRecording /\ \E name \in Names, rnd \in Rnds : startRecording(name, rnd))
          /\ UNCHANGED <<cleanerVars, callVars, playVars>>
    \/ (isRecording /\ ~isPaused /\ pauseRecording) /\ UNCHANGED <<cleanerVars, callVars, playVars>>
    \/ (isRecording /\ isPaused /\ resumeRecording) /\ UNCHANGED <<cleanerVars, callVars, playVars>>
    \/ (isRecording /\ \E confirmed \in BOOLEAN : stopRecording(confirmed))
          /\ UNCHANGED <<cleanerVars, callVars, playVars>>
    \/ (\E confirmed \in BOOLEAN : cancelRecording(confirmed)) /\ UNCHANGED <<cleanerVars, callVars, playVars>>
    \/ (\E coords \in GeoCoords, late \in BOOLEAN : handlePositionUpdate(coords, late))
          /\ UNCHANGED <<cleanerVars, callVars, playVars>>
    \/ handlePositionError /\ UNCHANGED <<cleanerVars, callVars, playVars>>
    \/ Tick /\ UNCHANGED <<viewVars, cleanerVars, callVars, playVars>>

SpecView == Init /\ [][NextView]_vars

\* a caller of trackUtils holding one track, or none
InitCleaner ==
    /\ variant = 3
    /\ now = 0
    /\ current = <<>>
    /\ history = <<>>
    /\ lastOp = Call("init", "done")
    /\ chrono = TRUE
    /\ steps = 0
    /\ isRecording = FALSE
    /\ isPaused = FALSE
    /\ watchId = Null
    /\ lateFix = FALSE
    /\ speedHistory = <<>>
    /\ timeLabels = <<>>
    /\ maxSpeed = 0
    /\ currentTrackRef = <<>>
    /\ \/ heap = <<>> /\ arg = Null
       \/ \E track \in RawTracks : heap = <<track>> /\ arg = 1
    /\ cleaned = <<>>
    /\ given = <<>>
    /\ result = <<>>
    /\ playbackActive = FALSE
    /\ currentPointIndex = 0
    /\ playbackSpeed = 2
    /\ playbackTimer = Null
    /\ timeouts = <<>>

NextCleaner ==
    (\E track \in HeldTracks : prepareTrackData(track))
       /\ UNCHANGED <<variant, now, current, history, lastOp, chrono, steps, viewVars,
                      callVars, playVars>>

SpecCleaner == InitCleaner /\ [][NextCleaner]_vars

TypeOK ==
    /\ variant \in Variants
    /\ Len(current) <= 1


----------------------------------------------------------------------------
(* Properties of the session *)

Last(s) == s[Len(s)]

ActiveTrack == current[1]

IsPrefix(s, t) == Len(s) <= Len(t) /\ SubSeq(t, 1, Len(s)) = s

Chronological(points) ==
    \A i \in 1..(Len(points) - 1) : points[i].timestamp <= points[i + 1].timestamp

\* the distance of a position from a stored point, and the time between them
DistanceFrom(point, position) ==
    calculateDistance(point.latitude, point.longitude,
                      position.latitude, position.longitude)

ElapsedSince(point, position) ==
    (IF position.timestamp = Undefined THEN now ELSE position.timestamp) - point.timestamp

RECURSIVE SumOfDistances(_)
SumOfDistances(points) ==
    IF Len(points) < 2 THEN 0
    ELSE LET n == Len(points)
         IN  Plus(SumOfDistances(SubSeq(points, 1, n - 1)),
                  DistanceFrom(points[n - 1], points[n]))

\* C1: after any sequence of calls at most one track is active: the active
\* slot holds at most one record and no record of the history is active
C1_AtMostOneActive ==
    /\ Len(current) <= 1
    /\ \A i \in DOMAIN history : ~history[i].active

\* C2: stopTrack on an active track returns it with active = false and
\* endTime set, appends exactly that record to the history, whose earlier
\* records stay as they were, and empties the active slot
C2_StopMovesTrackToHistory ==
    [][\A extraData \in ExtraDatas :
         (current # <<>> /\ stopTrack(extraData)) =>
            LET ret == stopTrackResult(variant, current, history, extraData, now).ret
            IN  /\ ret # <<>>
                /\ ret[1].id = ActiveTrack.id
                /\ ret[1].active = FALSE
                /\ ret[1].endTime # Null
                /\ history' = Append(history, JsonTrack(ret[1]))
                /\ getCurrentTrack' = <<>>]_vars

C4_IgnoredFixChangesNothing ==
    [][\A position \in Fixes :
         (/\ current # <<>>
          /\ ActiveTrack.points # <<>>
          /\ LessThan(DistanceFrom(Last(ActiveTrack.points), position), 10)
          /\ ElapsedSince(Last(ActiveTrack.points), position)
                < (IF variant = 3 THEN 1000 ELSE 60000)
          /\ addPointToTrack(position)) =>
            /\ addPointResult(variant, ActiveTrack, position, now).track = ActiveTrack
            /\ current' = current
            /\ history' = history]_vars

C4_Witness ==
    /\ lastOp = Call("addPointToTrack", "ignored")
    /\ Len(ActiveTrack.points) = 2

\* C5: a fix 2 m from the last stored point is rejected 0.1 s after it (the
\* track keeps 1 point) and accepted 2 s after it (the track has 2 points):
\* an elapsed time of at least 1 s admits a fix however close it is
C5_OneSecondAdmitsCloseFix ==
    [][\A position \in ValidFixes :
         (/\ current # <<>>
          /\ Len(ActiveTrack.points) = 1
          /\ DistanceFrom(ActiveTrack.points[1], position) = 2
          /\ addPointToTrack(position)) =>
            /\ ElapsedSince(ActiveTrack.points[1], position) = 100
                  => Len(current'[1].points) = 1
            /\ ElapsedSince(ActiveTrack.points[1], position) >= 1000
                  => Len(current'[1].points) = 2]_vars

\* C6: the distance of the active track is the sum of the great-circle
\* distances between its consecutive stored points, whatever fixes were
\* accepted and rejected
C6_DistanceIsSumOverPoints ==
    current # <<>> => ActiveTrack.distance = SumOfDistances(ActiveTrack.points)

\* C7: the duration of the active track is 0 with fewer than 2 points and
\* otherwise the time from the first to the last stored point; it is not
\* negative when the fixes came in chronological order
C7_DurationIsLastMinusFirst ==
    current # <<>> =>
        /\ Len(ActiveTrack.points) < 2 => ActiveTrack.duration = 0
        /\ Len(ActiveTrack.points) >= 2 =>
              ActiveTrack.duration =
                 Last(ActiveTrack.points).timestamp - ActiveTrack.points[1].timestamp
        /\ chrono => ActiveTrack.duration >= 0

C7_Witness ==
    /\ current # <<>>
    /\ lastOp = Call("addPointToTrack", "done")
    /\ Len(ActiveTrack.points) = 3
    /\ ActiveTrack.points[2].timestamp # ActiveTrack.points[1].timestamp
    /\ chrono
    /\ ActiveTrack.duration > 0

\* C8: for any fixes, also one older than the last stored point, the stored
\* points stay in non-decreasing timestamp order and each call keeps the
\* points stored before as a prefix of the new sequence
C8_PointsChronologicalAppendOnly ==
    [][\A position \in Fixes :
         (current # <<>> /\ addPointToTrack(position)) =>
            /\ IsPrefix(ActiveTrack.points, current'[1].points)
            /\ Chronological(current'[1].points)]_vars

\* C9: a fix whose latitude or longitude is missing, NaN or not finite is
\* not stored: points, distance and duration of the active track stay as
\* they were
C9_MalformedFixIsDropped ==
    [][\A position \in MalformedFixes :
         (current # <<>> /\ addPointToTrack(position)) =>
            /\ current'[1].points = ActiveTrack.points
            /\ current'[1].distance = ActiveTrack.distance
            /\ current'[1].duration = ActiveTrack.duration]_vars

\* C10: with no active track addPointToTrack and stopTrack return null and
\* leave the active slot and the history as they were
C10_NoActiveTrackIsNoOp ==
    [][(/\ current = <<>>
        /\ \/ \E position \in Fixes : addPointToTrack(position)
           \/ \E extraData \in ExtraDatas : stopTrack(extraData)) =>
            /\ lastOp'.outcome = "null"
            /\ \A extraData \in ExtraDatas :
                  stopTrackResult(variant, current, history, extraData, now).ret = <<>>
            /\ current' = <<>>
            /\ history' = history]_vars

C10_Witness ==
    /\ lastOp.outcome = "null"
    /\ current = <<>>
    /\ history # <<>>

\* the fix was stored as a new last point of the active track
Stored(position) ==
    /\ current # <<>>
    /\ addPointToTrack(position)
    /\ Len(current'[1].points) = Len(ActiveTrack.points) + 1

\* C11: every point that addPointToTrack stores has a speed that is not
\* null: 0 for the first point of the track, the distance to the previous
\* stored point divided by the elapsed seconds when the elapsed time is
\* positive, and 0 when it is not
C11_StoredPointHasSpeed ==
    [][\A position \in ValidFixes :
         Stored(position) =>
            LET stored == Last(current'[1].points)
            IN  /\ stored.speed # Null
                /\ stored.speed =
                      IF ActiveTrack.points = <<>> THEN 0
                      ELSE LET distance == DistanceFrom(Last(ActiveTrack.points), position)
                               elapsed == ElapsedSince(Last(ActiveTrack.points), position)
                           IN  IF elapsed > 0 THEN (distance * 1000000) \div elapsed
                               ELSE 0]_vars

\* a point without its speed
Position(point) == [point EXCEPT !.speed = Null]

\* C12: whatever extraData is given, the record that stopTrack writes to
\* the history has active = false, the endTime set by stopTrack, and the
\* id, the startTime and the points of the track that was active
C12_ExtraDataOverwritesNothing ==
    [][\A extraData \in ExtraDatas :
         (current # <<>> /\ stopTrack(extraData)) =>
            LET stored == Last(history')
            IN  /\ stored.active = FALSE
                /\ stored.endTime = now
                /\ stored.id = ActiveTrack.id
                /\ stored.startTime = ActiveTrack.startTime
                /\ [i \in DOMAIN stored.points |-> Position(stored.points[i])]
                      = [i \in DOMAIN ActiveTrack.points |-> Position(ActiveTrack.points[i])]]_vars

\* C13: every track of the history has its points in non-decreasing
\* timestamp order, in whatever order the fixes were delivered
C13_HistoryPointsAreSorted ==
    \A i \in DOMAIN history : Chronological(history[i].points)

C16_PointCarriesFixData ==
    [][\A position \in ValidFixes :
         Stored(position) =>
            LET stored == Last(current'[1].points)
            IN  /\ stored.accuracy = position.accuracy
                /\ stored.altitude =
                      (IF position.altitude = Undefined THEN Null ELSE position.altitude)
                /\ stored.battery = BatteryLevel]_vars

\* C15: when the write of the history throws during stopTrack, the
\* exception reaches the caller and the track is not lost: the active slot
\* still holds it and the history is as it was; the same when startTrack
\* stops the previous track
C15_FailedHistoryWriteKeepsTrack ==
    [][(/\ current # <<>>
        /\ \/ \E extraData \in ExtraDatas : stopTrackThrows(extraData)
           \/ \E name \in Names, rnd \in Rnds : startTrackThrows(name, rnd, STORAGE_KEY)) =>
            /\ lastOp'.outcome = "threw"
            /\ current' = current
            /\ current'[1].active
            /\ history' = history]_vars

C15_Witness ==
    /\ lastOp = Call("startTrack", "threw")
    /\ current # <<>>
    /\ ActiveTrack.points # <<>>
    /\ history = <<>>

\* C17: while the view is paused (after pauseRecording or a geolocation
\* error, until resumeRecording) no fix is forwarded to addPointToTrack, so
\* the points, the distance and the duration of the active track stay as
\* they are; pausing and resuming change no field of the stored track
C17_PausedViewForwardsNothing ==
    [][/\ (/\ isRecording /\ isPaused
           /\ \E coords \in GeoCoords, late \in BOOLEAN :
                 handlePositionUpdate(coords, late)) =>
             /\ lastOp'.op # "addPointToTrack"
             /\ UNCHANGED <<current, history>>
       /\ (isRecording /\ isPaused /\ isRecording' /\ isPaused') =>
             UNCHANGED <<current, history>>
       /\ (pauseRecording \/ resumeRecording \/ (isRecording /\ handlePositionError)) =>
             UNCHANGED <<current, history>>]_vars

C17_Witness ==
    /\ isRecording
    /\ isPaused
    /\ lastOp = Call("handlePositionUpdate", "not forwarded")
    /\ current # <<>>
    /\ ActiveTrack.points # <<>>

\* a point with a finite numeric latitude and longitude
HasFiniteCoordinates(point) ==
    point.latitude \notin NonNumbers /\ point.longitude \notin NonNumbers

Orders(n) == {f \in [1..n -> 1..n] : \A i, j \in 1..n : f[i] = f[j] => i = j}

\* the track returned by the last call of prepareTrackData
Returned == Last(cleaned').ret

\* C18: the points of the track that prepareTrackData returns are exactly
\* the input points with a finite numeric latitude and longitude, sorted by
\* ascending timestamp, points of equal timestamp in their original order
C18_CleanedPointsFilteredAndSorted ==
    [][\A track \in HeldTracks :
         (track # Null /\ HasPoints(heap[track]) /\ prepareTrackData(track)) =>
            LET kept == SelectSeq(heap[track].points, HasFiniteCoordinates)
                out == heap'[Returned].points
            IN  /\ Len(out) = Len(kept)
                /\ Chronological(out)
                /\ \E f \in Orders(Len(kept)) :
                      /\ \A i \in DOMAIN out : Position(out[i]) = Position(kept[f[i]])
                      /\ \A i, j \in DOMAIN out :
                            (i < j /\ out[i].timestamp = out[j].timestamp) => f[i] < f[j]]_vars

\* C19: prepareTrackData applied to a track it returned gives a track with
\* the same points, in the same order, with the same speeds
C19_PrepareIsIdempotent ==
    [][\A i \in DOMAIN cleaned :
         LET once == cleaned[i].ret
         IN  (once # Null /\ HasPoints(heap[once]) /\ prepareTrackData(once)) =>
                heap'[Returned].points = heap[once].points]_vars

C19_Witness ==
    /\ Len(cleaned) = 2
    /\ cleaned[2].track = cleaned[1].ret
    /\ cleaned[2].ret # cleaned[1].ret
    /\ Len(heap[cleaned[2].ret].points) = 3
    /\ heap[cleaned[2].ret].points # heap[arg].points
    /\ \A i \in 2..3 : heap[cleaned[2].ret].points[i].speed > 0

\* C20: prepareTrackData changes no object it is given: with no track, no
\* points or an empty list of points it returns its argument, and otherwise
\* a new object, the order and the speeds of the points of the argument
\* being after the call what they were before
C20_PrepareLeavesArgumentAlone ==
    [][\A track \in HeldTracks :
         prepareTrackData(track) =>
            /\ \A ref \in DOMAIN heap : heap'[ref] = heap[ref]
            /\ IF track = Null \/ ~HasPoints(heap[track])
               THEN Returned = track /\ heap' = heap
               ELSE Returned \notin DOMAIN heap]_vars

C20_Witness ==
    /\ Len(cleaned) = 1
    /\ arg # Null
    /\ HasPoints(heap[arg])
    /\ cleaned[1].ret # arg
    /\ Len(heap[cleaned[1].ret].points) = Len(heap[arg].points)
    /\ \E i \in DOMAIN heap[arg].points :
          /\ heap[cleaned[1].ret].points[i].timestamp # heap[arg].points[i].timestamp
    /\ \E i \in DOMAIN heap[arg].points :
          /\ heap[cleaned[1].ret].points[i].speed # heap[arg].points[i].speed

\* C26: a confirmed cancelRecording discards the track being recorded:
\* afterwards it is neither in the active slot nor in the history.
C26_CancelDiscardsTrack ==
    [][(isRecording /\ current # <<>> /\ cancelRecording(TRUE))
         => /\ current' = <<>>
            /\ \A i \in DOMAIN history' : history'[i].id # ActiveTrack.id]_vars

\* C27: a confirmed stopRecording stores the live speed data of the view as
\* speedData of the saved track: the saved speedData.history is the view's
\* speedHistory.
C27_SavedSpeedDataIsLiveData ==
    [][(isRecording /\ current # <<>> /\ speedHistory # <<>> /\ stopRecording(TRUE))
         => /\ history' # <<>>
            /\ Last(history').id = ActiveTrack.id
            /\ Last(history').speedData # <<>>
            /\ Last(history').speedData[1].history = speedHistory]_vars

\* the points of the clone after the sort and the filter, before the loop
\* over the speeds
CleanedSequence(track) ==
    SelectSeq(SortByTimestamp(JsonTrack(track).points), HasCoordinates)

\* C29: in the track returned by prepareTrackData every point from the
\* second on whose speed was null, undefined or 0 has as speed the distance
\* to its predecessor in the cleaned sequence divided by the elapsed
\* seconds, in m/s as addPointToTrack stores it, and 0 when no time has
\* elapsed; the first point and the points with a non-zero speed keep theirs.
\* (Stated for tracks whose points all have finite coordinates.)
C29_FilledSpeedIsMetresPerSecond ==
    [][\A track \in HeldTracks :
         (/\ track # Null /\ HasPoints(heap[track])
          /\ \A i \in DOMAIN heap[track].points :
                HasFiniteCoordinates(heap[track].points[i])
          /\ prepareTrackData(track)) =>
            LET pre == CleanedSequence(heap[track])
                out == heap'[Returned].points
            IN  /\ Len(out) = Len(pre)
                /\ \A i \in DOMAIN out :
                      out[i].speed =
                         IF i > 1 /\ pre[i].speed \in {Null, Undefined, 0}
                         THEN IF ElapsedSince(pre[i - 1], pre[i]) > 0
                              THEN SpeedOf(DistanceFrom(pre[i - 1], pre[i]),
                                           ElapsedSince(pre[i - 1], pre[i]))
                              ELSE 0
                         ELSE pre[i].speed]_vars

----------------------------------------------------------------------------
(* Statistics: calculateTrackStats of trackingService and               *)
(* calculateTrackStatistics of trackUtils.  Both only read the track     *)
(* they are given (calculateTrackStats looks it up with getTrackById      *)
(* first when it is given an id); `given` is that track, <<>> for null.   *)

StatPoint(lat, alt, ts, speed) ==
    [latitude |-> lat, longitude |-> 0, accuracy |-> 5, altitude |-> alt,
     timestamp |-> ts, speed |-> speed, battery |-> Null]

\* points as the three copies store them: the altitude and the speed are
\* numbers or null; two pairs of points share a timestamp
StatPoints ==
    {StatPoint(0, Null, 0, Null), StatPoint(0, 100, 0, Null),
     StatPoint(12, 107, 0, Null), StatPoint(12, 95, 2000, 5000),
     StatPoint(24, Null, 3000, 0), StatPoint(24, 98, 4000, Null),
     StatPoint(0, 100, 4000, Null)}

\* every point after the first passed the admission filter of the copy v
Admitted(v, points) ==
    \A i \in 2..Len(points) :
       ~Ignored(v, calculateDistance(points[i - 1].latitude, points[i - 1].longitude,
                                     points[i].latitude, points[i].longitude),
                points[i].timestamp - points[i - 1].timestamp)

\* finished tracks of the copy v whose points are in the order of their
\* timestamps, with the distance and the duration that addPointToTrack
\* accumulates, without speedData or with the one a caller attached
StatTracks(v) ==
    {[NewTrack(generateId(0, 1), "A", 0) EXCEPT
         !.points = points,
         !.distance = SumOfDistances(points),
         !.duration = IF Len(points) > 1
                      THEN points[Len(points)].timestamp - points[1].timestamp
                      ELSE 0,
         !.active = FALSE,
         !.endTime = 4000,
         !.speedData = speedData] :
        points \in {s \in SeqsUpTo(StatPoints, MaxPoints) :
                      Chronological(s) /\ Admitted(v, s)},
        speedData \in {<<>>, <<LiveSpeedData>>}}

\* the value returned for no track or a track with fewer than two points
EmptyStats ==
    [distance |-> 0, duration |-> 0, averageSpeed |-> 0, maxSpeed |-> 0,
     elevationGain |-> 0, elevationLoss |-> 0, speedHistory |-> <<>>,
     timeLabels |-> <<>>]

\* the predicate of the forEach over the points that collects the speeds
CollectsSpeed(v, point) ==
    IF v = 3 THEN HasValidSpeed(point)
    ELSE IF v = 2 THEN point.speed \notin {Null, Undefined}
    ELSE point.speed # Null

\* speeds: in km/h in the second and third copy, as stored in the first
CollectedSpeeds(v, points) ==
    LET collected == SelectSeq(points, LAMBDA point : CollectsSpeed(v, point))
    IN  [i \in DOMAIN collected |->
            IF v = 1 THEN collected[i].speed ELSE ToKmh(collected[i].speed)]

CollectedLabels(v, points) ==
    LET collected == SelectSeq(points, LAMBDA point : CollectsSpeed(v, point))
    IN  [i \in DOMAIN collected |-> TimeLabel(collected[i].timestamp)]

\* speeds.reduce((a, b) => a + b, 0) / speeds.length
Mean(speeds) == SumSeq(speeds) \div Len(speeds)

\* Math.max(maxSpeed, speed) over the collected speeds, from 0
MaxFromZero(speeds) ==
    IF speeds = <<>> THEN 0
    ELSE IF MaxSeq(speeds) > 0 THEN MaxSeq(speeds) ELSE 0

\* a / b of two numbers, `quotient` being its value when b is not 0
Divide(a, b, quotient) ==
    IF isNaN(a) \/ isNaN(b) THEN NaN
    ELSE IF ToNumber(b) = 0 THEN (IF ToNumber(a) = 0 THEN NaN ELSE Infinity)
    ELSE quotient

\* track.distance / 1000 / (track.duration / 3600), in thousandths of a km/h
DistanceOverDurationKmh(track) ==
    Divide(track.distance, track.duration,
           IF ToNumber(track.duration) # 0 /\ ~isNaN(track.distance)
           THEN KmhOf(ToNumber(track.distance), track.duration) ELSE 0)

\* track.distance / track.duration, in thousandths of a m/s
DistanceOverDuration(track) ==
    Divide(track.distance, track.duration,
           IF ToNumber(track.duration) # 0 /\ ~isNaN(track.distance)
           THEN SpeedOf(ToNumber(track.distance), track.duration) ELSE 0)

AverageSpeed(v, track) ==
    LET speeds == CollectedSpeeds(v, track.points)
    IN  IF speeds # <<>> THEN Mean(speeds)
        ELSE IF v = 1 THEN DistanceOverDuration(track)
        ELSE IF v = 2 THEN DistanceOverDurationKmh(track)
        ELSE IF LessThan(0, track.distance) /\ LessThan(0, track.duration)
             THEN DistanceOverDurationKmh(track)
             ELSE 0

\* a - b
Minus(a, b) ==
    IF isNaN(a) \/ isNaN(b) THEN NaN ELSE ToNumber(a) - ToNumber(b)

\* whether the loop over the pairs is entered at all
WalksPairs(v, points) ==
    IF v = 3 THEN TRUE
    ELSE IF v = 2 THEN FALSE
    ELSE points[1].altitude # Null

\* the condition under which the difference of the pair (i - 1, i) is added
CountsPair(v, points, i) ==
    IF v = 3
    THEN points[i].altitude \notin {Null, Undefined}
            /\ points[i - 1].altitude \notin {Null, Undefined}
    ELSE points[i].altitude # Null /\ points[i - 1].altitude # Null

\* the sums of the loop: each difference goes to the gain when it is
\* positive and with its absolute value to the loss otherwise
ElevationSums(points, counted) ==
    LET diff(i) == Minus(points[i].altitude, points[i - 1].altitude)
        gains == [k \in 1..(Len(points) - 1) |->
                    IF (k + 1) \in counted /\ LessThan(0, diff(k + 1))
                    THEN diff(k + 1) ELSE 0]
        losses == [k \in 1..(Len(points) - 1) |->
                     IF (k + 1) \in counted /\ ~LessThan(0, diff(k + 1))
                     THEN (IF isNaN(diff(k + 1)) THEN NaN ELSE Abs(diff(k + 1)))
                     ELSE 0]
    IN  [gain |-> SumSeq(gains),
         loss |-> IF \E k \in DOMAIN losses : losses[k] = NaN THEN NaN
                  ELSE SumSeq(losses)]

\* a || b
OrElse(a, b) == IF a \in {Undefined, Null, NaN, 0} THEN b ELSE a

\* the series computed from the points whether speedData is there or not
ComputedSpeedHistory(v, speedData, speeds) == IF v = 1 THEN <<>> ELSE speeds

\* track.speedData?.history || speedHistory; the first copy has [] for the
\* series computed from the points
FinalSpeedHistory(v, speedData, speeds) ==
    IF speedData # <<>> THEN speedData[1].history
    ELSE IF v = 1 THEN <<>> ELSE speeds

\* track.speedData?.timeLabels || timeLabels
FinalTimeLabels(v, speedData, labels) ==
    IF speedData # <<>> THEN speedData[1].timeLabels
    ELSE IF v = 1 THEN <<>> ELSE labels

\* calculateTrackStats(track) in the copy v, track being <<>> for null
calculateTrackStatsResult(v, track) ==
    IF track = <<>> \/ Len(track[1].points) < 2 THEN EmptyStats
    ELSE LET points == track[1].points
             speedData == track[1].speedData
             speeds == CollectedSpeeds(v, points)
             elevation ==
                ElevationSums(points,
                   IF WalksPairs(v, points)
                   THEN {i \in 2..Len(points) : CountsPair(v, points, i)}
                   ELSE {})
         IN  [distance |-> track[1].distance,
              duration |-> track[1].duration,
              averageSpeed |-> AverageSpeed(v, track[1]),
              maxSpeed |-> IF v # 1 /\ speedData # <<>>
                           THEN OrElse(speedData[1].maxSpeed, MaxFromZero(speeds))
                           ELSE MaxFromZero(speeds),
              elevationGain |-> elevation.gain,
              elevationLoss |-> elevation.loss,
              speedHistory |-> FinalSpeedHistory(v, speedData, speeds),
              timeLabels |-> FinalTimeLabels(v, speedData, CollectedLabels(v, points))]

calculateTrackStats(track) ==
    /\ result = <<>>
    /\ result' = <<calculateTrackStatsResult(variant, track)>>
    /\ lastOp' = Call("calculateTrackStats", "done")
    /\ UNCHANGED <<variant, now, current, history, chrono, steps, given>>

\* formatDuration(seconds): the hours, minutes and seconds it prints with
\* two digits each, of a duration given in thousandths of a second
formatDuration(milliseconds) ==
    LET seconds == milliseconds \div 1000
    IN  <<seconds \div 3600, (seconds % 3600) \div 60, seconds % 60>>

\* typeof p.latitude === 'number' && typeof p.longitude === 'number'
HasNumbers(p) ==
    p.latitude \notin {Undefined, Null} /\ p.longitude \notin {Undefined, Null}

\* x.toFixed(0) of a whole number of metres: its numeral
ToFixed0(metres) == metres

\* (metres / 1000).toFixed(2): hundredths of a kilometre
ToFixed2Km(metres) == IF metres = NaN THEN NaN ELSE (metres + 5) \div 10

\* the maximum of the loop: a speed counts when it is truthy and greater
MaxTruthy(points) ==
    LET speeds == [i \in 1..(Len(points) - 1) |->
                     IF points[i + 1].speed \in {Null, Undefined, NaN, 0} THEN 0
                     ELSE points[i + 1].speed]
    IN  MaxFromZero(speeds)

\* calculateTrackStatistics(track), track being <<>> for null
calculateTrackStatisticsResult(track) ==
    IF track = <<>> \/ Len(track[1].points) = 0
    THEN [distance |-> 0, duration |-> 0, avgSpeed |-> 0, maxSpeed |-> 0,
          elevGain |-> 0, elevLoss |-> 0]
    ELSE LET points == track[1].points
             durationMs == points[Len(points)].timestamp - points[1].timestamp
             validPoints == SelectSeq(points, HasNumbers)
             totalDistance == SumOfDistances(validPoints)
             elevation ==
                ElevationSums(validPoints,
                   {i \in 2..Len(validPoints) :
                       /\ validPoints[i - 1].altitude # Undefined
                       /\ validPoints[i].altitude # Undefined})
             avgSpeed == IF durationMs > 0
                         THEN (IF totalDistance = NaN THEN NaN
                               ELSE KmhOf(totalDistance, durationMs))
                         ELSE 0
         IN  [distance |-> ToFixed2Km(totalDistance),
              duration |-> formatDuration(durationMs),
              avgSpeed |-> IF avgSpeed = NaN THEN NaN ELSE ToFixed1(avgSpeed),
              maxSpeed |-> ToFixed1(MaxTruthy(validPoints)),
              elevGain |-> ToFixed0(elevation.gain),
              elevLoss |-> ToFixed0(elevation.loss)]

calculateTrackStatistics(track) ==
    /\ result = <<>>
    /\ result' = <<calculateTrackStatisticsResult(track)>>
    /\ lastOp' = Call("calculateTrackStatistics", "done")
    /\ UNCHANGED <<variant, now, current, history, chrono, steps, given>>

\* a caller holding one finished track, or none
InitStats ==
    /\ variant \in Variants
    /\ now = 0
    /\ current = <<>>
    /\ history = <<>>
    /\ lastOp = Call("init", "done")
    /\ chrono = TRUE
    /\ steps = 0
    /\ isRecording = FALSE
    /\ isPaused = FALSE
    /\ watchId = Null
    /\ lateFix = FALSE
    /\ speedHistory = <<>>
    /\ timeLabels = <<>>
    /\ maxSpeed = 0
    /\ currentTrackRef = <<>>
    /\ heap = <<>>
    /\ arg = Null
    /\ cleaned = <<>>
    /\ given \in {<<>>} \cup {<<track>> : track \in StatTracks(variant)}
    /\ result = <<>>
    /\ playbackActive = FALSE
    /\ currentPointIndex = 0
    /\ playbackSpeed = 2
    /\ playbackTimer = Null
    /\ timeouts = <<>>

NextStats ==
    \/ calculateTrackStats(given) /\ UNCHANGED <<viewVars, cleanerVars, playVars>>
    \/ calculateTrackStatistics(given) /\ UNCHANGED <<viewVars, cleanerVars, playVars>>

SpecStats == InitStats /\ [][NextStats]_vars

\* the statistics returned by the call made
Stats == result[1]

StatsOf(op) == lastOp.op = op /\ given # <<>> /\ Len(given[1].points) >= 2

\* C21: calculateTrackStats on a track with at least two points returns as
\* average speed the mean of the speeds of its points in km/h (x 3.6) when
\* a point has a valid speed, and otherwise the distance in km divided by
\* the duration in hours; the average is a finite number, 0 when the
\* distance or the duration is 0, never NaN or infinite.  (Stated for the
\* second and the third copy of trackingService.)
C21_AverageSpeedIsFinite ==
    (StatsOf("calculateTrackStats") /\ variant \in {2, 3}) =>
       LET track == given[1]
           valid == ValidSpeedPoints(track.points)
       IN  /\ Stats.averageSpeed \notin NonNumbers
           /\ Stats.averageSpeed =
                 IF valid # <<>>
                 THEN SumSeq([i \in DOMAIN valid |-> ToKmh(valid[i].speed)]) \div Len(valid)
                 ELSE IF track.distance = 0 \/ track.duration = 0 THEN 0
                 ELSE (track.distance * 3600000) \div track.duration

\* the pairs of consecutive points that both have an altitude
PairsWithAltitude(points) ==
    {i \in 2..Len(points) :
        /\ points[i - 1].altitude \notin {Null, Undefined}
        /\ points[i].altitude \notin {Null, Undefined}}

RECURSIVE SumOver(_, _)
SumOver(f, S) ==
    IF S = {} THEN 0
    ELSE LET x == CHOOSE y \in S : TRUE IN f[x] + SumOver(f, S \ {x})

Climb(points) ==
    LET up == [i \in 2..Len(points) |->
                 IF points[i].altitude > points[i - 1].altitude
                 THEN points[i].altitude - points[i - 1].altitude ELSE 0]
    IN  SumOver(up, PairsWithAltitude(points))

Descent(points) ==
    LET down == [i \in 2..Len(points) |->
                   IF points[i].altitude < points[i - 1].altitude
                   THEN points[i - 1].altitude - points[i].altitude ELSE 0]
    IN  SumOver(down, PairsWithAltitude(points))

\* C22: the elevation gain is the sum of the positive altitude differences
\* and the elevation loss the sum of the absolute negative differences over
\* the pairs of consecutive points that both have a non-null altitude; a
\* pair with a null altitude contributes nothing and does not keep later
\* pairs from being counted, also when the first point has no altitude.
\* (Stated for the first and the third copy of calculateTrackStats and for
\* calculateTrackStatistics.)
C22_ElevationSkipsNullPairsOnly ==
    /\ (StatsOf("calculateTrackStats") /\ variant \in {1, 3}) =>
          /\ Stats.elevationGain = Climb(given[1].points)
          /\ Stats.elevationLoss = Descent(given[1].points)
    /\ StatsOf("calculateTrackStatistics") =>
          /\ Stats.elevGain = Climb(given[1].points)
          /\ Stats.elevLoss = Descent(given[1].points)

\* the track objects a caller can get from the service: getAllTracks() and
\* getCurrentTrack()
KnownTracks ==
    {history[i] : i \in DOMAIN history} \cup {current[i] : i \in DOMAIN current}

\* a session of the third copy, followed until the statistics of one of its
\* tracks are asked for
InitReview == Init /\ variant = 3

NextReview ==
    \/ (result = <<>> /\ \E name \in Names : startTrack(name, 1))
          /\ UNCHANGED <<viewVars, cleanerVars, callVars, playVars>>
    \/ (result = <<>> /\ \E position \in ValidFixes : addPointToTrack(position))
          /\ UNCHANGED <<viewVars, cleanerVars, callVars, playVars>>
    \/ (result = <<>> /\ \E extraData \in ExtraDatas : stopTrack(extraData))
          /\ UNCHANGED <<viewVars, cleanerVars, callVars, playVars>>
    \/ (result = <<>> /\ Tick) /\ UNCHANGED <<viewVars, cleanerVars, callVars, playVars>>
    \/ (\E track \in KnownTracks : calculateTrackStats(<<track>>))
          /\ UNCHANGED <<viewVars, cleanerVars, playVars>>

SpecReview == InitReview /\ [][NextReview]_vars

\* the series computed from the points: an entry for every point with a
\* valid speed, in the order of the points
SeriesOf(points) ==
    LET valid == ValidSpeedPoints(points)
    IN  [speedHistory |-> [i \in DOMAIN valid |-> ToKmh(valid[i].speed)],
         timeLabels |-> [i \in DOMAIN valid |-> TimeLabel(valid[i].timestamp)]]

\* stopTrack keeps the speedData its track is given
KeepsSpeedData ==
    \A extraData \in ExtraDatas :
       (/\ current # <<>> /\ current[1].active
        /\ extraData # <<>> /\ "speedData" \in DOMAIN extraData[1]
        /\ stopTrack(extraData))
          => Last(history').speedData = extraData[1].speedData

\* C23: when a track carries a previously attached speedData, stopTrack
\* keeps it unchanged and calculateTrackStats returns its history and its
\* time labels; otherwise the speed series has one (time label, km/h) entry
\* for every point with a valid speed, in the order of the points.
C23_AttachedSeriesIsPreferred ==
    [][/\ KeepsSpeedData
       /\ \A track \in KnownTracks :
             calculateTrackStats(<<track>>) =>
                IF track.speedData # <<>>
                THEN /\ result'[1].speedHistory = track.speedData[1].history
                     /\ result'[1].timeLabels = track.speedData[1].timeLabels
                ELSE /\ result'[1].speedHistory = SeriesOf(track.points).speedHistory
                     /\ result'[1].timeLabels = SeriesOf(track.points).timeLabels]_vars

\* C23, amended: the same for the tracks with at least two points; a track
\* with fewer points has empty statistics whatever it carries.
C23_AttachedSeriesIsPreferredAmended ==
    [][/\ KeepsSpeedData
       /\ \A track \in KnownTracks :
             calculateTrackStats(<<track>>) =>
                IF Len(track.points) < 2
                THEN result'[1] = EmptyStats
                ELSE IF track.speedData # <<>>
                THEN /\ result'[1].speedHistory = track.speedData[1].history
                     /\ result'[1].timeLabels = track.speedData[1].timeLabels
                ELSE /\ result'[1].speedHistory = SeriesOf(track.points).speedHistory
                     /\ result'[1].timeLabels = SeriesOf(track.points).timeLabels]_vars

\* the statistics of a stopped track of two points that was given the
\* series of the view, which is not the series of its points
C23_Witness ==
    /\ lastOp.op = "calculateTrackStats"
    /\ \E i \in DOMAIN history :
          /\ Len(history[i].points) = 2
          /\ history[i].speedData = <<LiveSpeedData>>
          /\ SeriesOf(history[i].points).speedHistory # LiveSpeedData.history
          /\ result[1].speedHistory = LiveSpeedData.history
          /\ result[1].distance = history[i].distance

----------------------------------------------------------------------------
(* exportTrackToGPX.  A text is the sequence of its characters; the      *)
(* document is given by the texts and values the template is filled with. *)

\* track names with the five special characters and with an entity
ExportNames == {"Trip & <Test>", "'&lt;\""}

\* the characters of a track name
Spelling(name) ==
    CASE name = "Trip & <Test>" ->
            <<"T", "r", "i", "p", " ", "&", " ", "<", "T", "e", "s", "t", ">">>
      [] name = "'&lt;\"" -> <<"'", "&", "l", "t", ";", "\"">>
      [] name = "A" -> <<"A">>
      [] name = "Trajet du" -> <<"T", "r", "a", "j", "e", "t", " ", "d", "u">>

\* the replacement function that leaves the ampersand as it is
ReplacementKeepingAmpersand(char) ==
    CASE char = "<" -> <<"&", "l", "t", ";">>
      [] char = ">" -> <<"&", "g", "t", ";">>
      [] char = "'" -> <<"&", "a", "p", "o", "s", ";">>
      [] char = "\"" -> <<"&", "q", "u", "o", "t", ";">>
      [] OTHER -> <<char>>

\* what replace() puts for one character: the value of the switch for a
\* character of the class [<>&'"], the character itself otherwise
Replacement(char) ==
    CASE char = "<" -> <<"&", "l", "t", ";">>
      [] char = ">" -> <<"&", "g", "t", ";">>
      [] char = "&" -> <<"&", "a", "m", "p", ";">>
      [] char = "'" -> <<"&", "a", "p", "o", "s", ";">>
      [] char = "\"" -> <<"&", "q", "u", "o", "t", ";">>
      [] OTHER -> <<char>>

\* text.replace(/[<>&'"]/g, ...): one pass from left to right, what has
\* been put is not looked at again
RECURSIVE escapeXml(_)
escapeXml(text) ==
    IF text = <<>> THEN <<>> ELSE Replacement(Head(text)) \o escapeXml(Tail(text))

\* tracks.find((track) => track.id === id) || null
getTrackById(id) ==
    LET found == {i \in DOMAIN getAllTracks : getAllTracks[i].id = id}
    IN  IF found = {} THEN <<>>
        ELSE <<getAllTracks[CHOOSE i \in found : \A j \in found : i <= j]>>

\* the <trkpt> written without looking at the altitude
TrkptAlwaysEle(point) ==
    [lat |-> point.latitude, lon |-> point.longitude,
     ele |-> <<point.altitude>>, time |-> <<point.timestamp>>]

\* the <trkpt> element written for a point; ele and time are the elements
\* it holds, <<>> for none
Trkpt(point) ==
    [lat |-> point.latitude, lon |-> point.longitude,
     ele |-> IF point.altitude # Null THEN <<point.altitude>> ELSE <<>>,
     time |-> <<point.timestamp>>]

\* the document for a track
Gpx(track) ==
    [metadata |-> [name |-> escapeXml(Spelling(track.name)), time |-> track.startTime],
     trk |-> [name |-> escapeXml(Spelling(track.name)),
              trkseg |-> [i \in DOMAIN track.points |-> Trkpt(track.points[i])]]]

\* the value returned: <<>> for null
exportTrackToGPXResult(trackId) ==
    LET track == getTrackById(trackId)
    IN  IF track = <<>> THEN <<>> ELSE <<Gpx(track[1])>>

exportTrackToGPX(trackId) ==
    /\ result = <<>>
    /\ result' = <<exportTrackToGPXResult(trackId)>>
    /\ lastOp' = Call("exportTrackToGPX", IF getTrackById(trackId) = <<>> THEN "null" ELSE "done")
    /\ given' = <<trackId>>
    /\ UNCHANGED <<variant, now, current, history, chrono, steps>>

\* the ids a caller can ask for: of every track there is or was, and of none
ExportIds == {generateId(t, 1) : t \in Times} \cup {generateId(0, 0)}

\* a session of the third copy, followed until a track is exported
NextExport ==
    \/ (result = <<>> /\ \E name \in ExportNames : startTrack(name, 1))
          /\ UNCHANGED <<viewVars, cleanerVars, callVars, playVars>>
    \/ (result = <<>> /\ \E position \in ValidFixes : addPointToTrack(position))
          /\ UNCHANGED <<viewVars, cleanerVars, callVars, playVars>>
    \/ (result = <<>> /\ stopTrack(<<>>))
          /\ UNCHANGED <<viewVars, cleanerVars, callVars, playVars>>
    \/ (result = <<>> /\ \E id \in KnownIds : deleteTrack(id))
          /\ UNCHANGED <<viewVars, cleanerVars, callVars, playVars>>
    \/ (result = <<>> /\ Tick) /\ UNCHANGED <<viewVars, cleanerVars, callVars, playVars>>
    \/ (\E trackId \in ExportIds : exportTrackToGPX(trackId))
          /\ UNCHANGED <<viewVars, cleanerVars, playVars>>

SpecExport == InitReview /\ [][NextExport]_vars

\* the document returned by the export made
Exported == result[1]

\* the first track of the history with the id asked for
Asked == CHOOSE i \in DOMAIN history :
            /\ history[i].id = given[1]
            /\ \A j \in DOMAIN history : history[j].id = given[1] => i <= j

\* C24: exportTrackToGPX returns null when no track of the history has the
\* id, as for the track being recorded or a deleted track; for a track of
\* the history it returns a document with exactly one <trkpt> for each
\* point, in the order of the points, each with a <time> element and with
\* an <ele> element exactly when the altitude of the point is not null.
C24_OneTrkptPerPoint ==
    lastOp.op = "exportTrackToGPX" =>
       IF \A i \in DOMAIN history : history[i].id # given[1]
       THEN Exported = <<>>
       ELSE /\ Exported # <<>>
            /\ LET points == history[Asked].points
                   trkseg == Exported[1].trk.trkseg
               IN  /\ Len(trkseg) = Len(points)
                   /\ \A i \in DOMAIN points :
                         /\ trkseg[i].lat = points[i].latitude
                         /\ trkseg[i].lon = points[i].longitude
                         /\ trkseg[i].time = <<points[i].timestamp>>
                         /\ (trkseg[i].ele # <<>>) = (points[i].altitude # Null)
                         /\ trkseg[i].ele # <<>> => trkseg[i].ele = <<points[i].altitude>>

\* a track of two points, one with and one without altitude, exported
C24_Witness ==
    /\ lastOp = Call("exportTrackToGPX", "done")
    /\ Len(history[Asked].points) = 2
    /\ \E i, j \in 1..2 :
          /\ Exported[1].trk.trkseg[i].ele = <<>>
          /\ Exported[1].trk.trkseg[j].ele = <<7>>

\* the five entities and the characters they stand for
Entities ==
    {<<<<"&", "l", "t", ";">>, "<">>, <<<<"&", "g", "t", ";">>, ">">>,
     <<<<"&", "a", "m", "p", ";">>, "&">>, <<<<"&", "a", "p", "o", "s", ";">>, "'">>,
     <<<<"&", "q", "u", "o", "t", ";">>, "\"">>}

StartsWith(text, prefix) ==
    Len(prefix) <= Len(text) /\ SubSeq(text, 1, Len(prefix)) = prefix

\* the text an XML reader gets from a written text: every entity read as
\* its character, once
RECURSIVE Unescaped(_)
Unescaped(text) ==
    IF text = <<>> THEN <<>>
    ELSE IF \E e \in Entities : StartsWith(text, e[1])
    THEN LET e == CHOOSE x \in Entities : StartsWith(text, x[1])
         IN  <<e[2]>> \o Unescaped(SubSeq(text, Len(e[1]) + 1, Len(text)))
    ELSE <<Head(text)>> \o Unescaped(Tail(text))

\* none of < > ' " is written; an ampersand is written only as the start of
\* an entity
WellFormedText(text) ==
    \A i \in DOMAIN text :
       /\ text[i] \notin {"<", ">", "'", "\""}
       /\ text[i] = "&" =>
             \E e \in Entities : StartsWith(SubSeq(text, i, Len(text)), e[1])

\* C25: in the exported document the name of the track is written with
\* every < > & ' " replaced by its entity, each character escaped exactly
\* once and the other characters unchanged; the name `Trip & <Test>` is
\* written `Trip &amp; &lt;Test&gt;`.
C25_NameIsEscapedOnce ==
    lastOp = Call("exportTrackToGPX", "done") =>
       LET name == Spelling(history[Asked].name)
           written == Exported[1].trk.name
       IN  /\ Exported[1].metadata.name = written
           /\ WellFormedText(written)
           /\ Unescaped(written) = name
           /\ Len(written) =
                 Len(name) + 3 * Len(SelectSeq(name, LAMBDA c : c \in {"<", ">"}))
                           + 4 * Len(SelectSeq(name, LAMBDA c : c = "&"))
                           + 5 * Len(SelectSeq(name, LAMBDA c : c \in {"'", "\""}))
           /\ history[Asked].name = "Trip & <Test>" =>
                 written = <<"T", "r", "i", "p", " ", "&", "a", "m", "p", ";", " ",
                             "&", "l", "t", ";", "T", "e", "s", "t", "&", "g", "t", ";">>

\* a track whose name holds an entity already, exported: its ampersand is
\* escaped and nothing else of it
C25_Witness ==
    /\ lastOp = Call("exportTrackToGPX", "done")
    /\ history[Asked].name = "'&lt;\""
    /\ Exported[1].trk.name =
          <<"&", "a", "p", "o", "s", ";", "&", "a", "m", "p", ";", "l", "t", ";",
            "&", "q", "u", "o", "t", ";">>

----------------------------------------------------------------------------
(* The track visualizer: playback of a track along its points.  props.track *)
(* is `given`; the controls are shown for a track of more than one point.   *)

\* the options of the speed select, in halves: 0.5x, 1x, 2x and 4x
PlaybackSpeeds == {1, 2, 4, 8}

\* what setTimeout returns
setTimeout == 1

\* props.track.points.length
Length == Len(given[1].points)

\* Math.max(50, delay / playbackSpeed.value) for the step from the point at
\* index (from 0) to the next one
Delay(index) ==
    LET delay == given[1].points[index + 2].timestamp - given[1].points[index + 1].timestamp
        scaled == (delay * 2) \div playbackSpeed
    IN  IF scaled > 50 THEN scaled ELSE 50

\* the body of advancePlayback once playbackActive is known to be true;
\* `pending` are the timeouts pending when it runs
advancePlayback(pending) ==
    IF currentPointIndex + 1 >= Length
    THEN /\ currentPointIndex' = Length - 1
         /\ playbackActive' = FALSE
         /\ timeouts' = pending
         /\ UNCHANGED playbackTimer
    ELSE /\ currentPointIndex' = currentPointIndex + 1
         /\ playbackActive' = TRUE
         /\ IF currentPointIndex + 1 < Length - 1
            THEN /\ playbackTimer' = setTimeout
                 /\ timeouts' = Append(pending, [id |-> setTimeout,
                                                 delay |-> Delay(currentPointIndex + 1)])
            ELSE /\ timeouts' = pending
                 /\ UNCHANGED playbackTimer

PlaybackOnly(handler) ==
    /\ lastOp' = Call(handler, "done")
    /\ UNCHANGED <<variant, now, current, history, chrono, steps>>

\* the first advancePlayback is called by startPlayback itself
startPlayback ==
    /\ PlaybackOnly("startPlayback")
    /\ IF playbackActive \/ given = <<>> \/ Length = 0
       THEN UNCHANGED <<playbackActive, currentPointIndex, playbackTimer, timeouts>>
       ELSE advancePlayback(timeouts)
    /\ UNCHANGED playbackSpeed

\* a timeout fires and calls advancePlayback
TimeoutFires ==
    /\ timeouts # <<>>
    /\ PlaybackOnly("advancePlayback")
    /\ IF ~playbackActive
       THEN /\ timeouts' = Tail(timeouts)
            /\ UNCHANGED <<playbackActive, currentPointIndex, playbackTimer>>
       ELSE advancePlayback(Tail(timeouts))
    /\ UNCHANGED playbackSpeed

\* if (playbackTimer) { clearTimeout(playbackTimer); playbackTimer = null }
ClearPlaybackTimer ==
    IF playbackTimer # Null /\ playbackTimer # 0
    THEN /\ timeouts' = SelectSeq(timeouts, LAMBDA timeout : timeout.id # playbackTimer)
         /\ playbackTimer' = Null
    ELSE UNCHANGED <<playbackTimer, timeouts>>

pausePlayback ==
    /\ PlaybackOnly("pausePlayback")
    /\ playbackActive' = FALSE
    /\ ClearPlaybackTimer
    /\ UNCHANGED <<currentPointIndex, playbackSpeed>>

stopPlayback ==
    /\ PlaybackOnly("stopPlayback")
    /\ playbackActive' = FALSE
    /\ ClearPlaybackTimer
    /\ currentPointIndex' = 0
    /\ UNCHANGED playbackSpeed

\* speedData.value[index].time: the time of a point since the first one
TimeOf(index) == given[1].points[index + 1].timestamp - given[1].points[1].timestamp

\* the first index whose time is nearest to the time of the slider
handleSliderChange(time) ==
    /\ PlaybackOnly("handleSliderChange")
    /\ currentPointIndex' =
          CHOOSE i \in 0..(Length - 1) :
             \A j \in 0..(Length - 1) :
                \/ Abs(TimeOf(i) - time) < Abs(TimeOf(j) - time)
                \/ Abs(TimeOf(i) - time) = Abs(TimeOf(j) - time) /\ i <= j
    /\ UNCHANGED <<playbackActive, playbackSpeed, playbackTimer, timeouts>>

\* <select v-model="playbackSpeed">
selectPlaybackSpeed(value) ==
    /\ PlaybackOnly("selectPlaybackSpeed")
    /\ playbackSpeed' = value
    /\ UNCHANGED <<playbackActive, currentPointIndex, playbackTimer, timeouts>>

\* the visualizer mounted with a finished track of the third copy that has
\* more than one point
InitPlayback ==
    /\ variant = 3
    /\ now = 0
    /\ current = <<>>
    /\ history = <<>>
    /\ lastOp = Call("init", "done")
    /\ chrono = TRUE
    /\ steps = 0
    /\ isRecording = FALSE
    /\ isPaused = FALSE
    /\ watchId = Null
    /\ lateFix = FALSE
    /\ speedHistory = <<>>
    /\ timeLabels = <<>>
    /\ maxSpeed = 0
    /\ currentTrackRef = <<>>
    /\ heap = <<>>
    /\ arg = Null
    /\ cleaned = <<>>
    /\ given \in {<<track>> : track \in {t \in StatTracks(3) : Len(t.points) > 1}}
    /\ result = <<>>
    /\ playbackActive = FALSE
    /\ currentPointIndex = 0
    /\ playbackSpeed = 2
    /\ playbackTimer = Null
    /\ timeouts = <<>>

\* the buttons enabled are the calls the user can make
NextPlayback ==
    \/ (~playbackActive /\ startPlayback) /\ UNCHANGED <<viewVars, cleanerVars, callVars>>
    \/ TimeoutFires /\ UNCHANGED <<viewVars, cleanerVars, callVars>>
    \/ (playbackActive /\ pausePlayback) /\ UNCHANGED <<viewVars, cleanerVars, callVars>>
    \/ stopPlayback /\ UNCHANGED <<viewVars, cleanerVars, callVars>>
    \/ (\E time \in {0, 1000, 2000, 3000, 4000} : handleSliderChange(time))
          /\ UNCHANGED <<viewVars, cleanerVars, callVars>>
    \/ (\E value \in PlaybackSpeeds : selectPlaybackSpeed(value))
          /\ UNCHANGED <<viewVars, cleanerVars, callVars>>

\* a timeout that is set fires after its delay unless it is cleared
SpecPlayback ==
    InitPlayback /\ [][NextPlayback]_vars
       /\ WF_vars(TimeoutFires /\ UNCHANGED <<viewVars, cleanerVars, callVars>>)

\* playback is over: at the last point, not active, no timeout pending
PlaybackEnded ==
    /\ currentPointIndex = Length - 1
    /\ ~playbackActive
    /\ timeouts = <<>>

\* the user has used a control since playback was started
UserActed ==
    lastOp.op \in {"pausePlayback", "stopPlayback", "handleSliderChange",
                   "selectPlaybackSpeed"}

\* C28: playback started by startPlayback on a track of at least two points
\* advances one point per timer step and, when the user does nothing more,
\* eventually ends at the last point with playbackActive = false and no
\* timeout pending, so that it can be started again.
C28_PlaybackEnds ==
    (playbackActive /\ ~UserActed) ~> (PlaybackEnded \/ UserActed)

----------------------------------------------------------------------------
(* trackUtils: preparePointsForMap.  A coordinate is given with its type  *)
(* (typeof), its value when it is not a string and its characters when it *)
(* is one; `given` is the array, <<>> for null, an element being <<>> for *)
(* null or <<point>>.                                                    *)

Num(n) == [type |-> "number", value |-> n, text |-> <<>>]

Str(chars) == [type |-> "string", value |-> 0, text |-> chars]

UndefinedValue == [type |-> "undefined", value |-> Undefined, text |-> <<>>]

\* typeof null is 'object'
NullValue == [type |-> "object", value |-> Null, text |-> <<>>]

\* parseFloat of a text without fraction and exponent: leading white space
\* is skipped, a sign and the longest run of digits are read, what follows
\* is ignored; "Infinity" is read as Infinity; NaN when there is no digit
parseFloat(text) ==
    LET DecimalDigits == <<"0", "1", "2", "3", "4", "5", "6", "7", "8", "9">>
        IsDigit(char) == \E d \in DOMAIN DecimalDigits : DecimalDigits[d] = char
        DigitValue(char) ==
            (CHOOSE d \in DOMAIN DecimalDigits : DecimalDigits[d] = char) - 1
        RECURSIVE SkipSpaces(_)
        SkipSpaces(chars) ==
            IF chars # <<>> /\ Head(chars) = " " THEN SkipSpaces(Tail(chars)) ELSE chars
        RECURSIVE LeadingDigits(_)
        LeadingDigits(chars) ==
            IF chars # <<>> /\ IsDigit(Head(chars))
            THEN <<Head(chars)>> \o LeadingDigits(Tail(chars))
            ELSE <<>>
        RECURSIVE DecimalValue(_)
        DecimalValue(digits) ==
            IF digits = <<>> THEN 0
            ELSE DecimalValue(SubSeq(digits, 1, Len(digits) - 1)) * 10
                    + DigitValue(digits[Len(digits)])
        trimmed == SkipSpaces(text)
        signed == trimmed # <<>> /\ Head(trimmed) \in {"+", "-"}
        body == IF signed THEN Tail(trimmed) ELSE trimmed
        found == LeadingDigits(body)
    IN  IF Len(body) >= 8 /\ SubSeq(body, 1, 8) = <<"I", "n", "f", "i", "n", "i", "t", "y">>
        THEN Infinity
        ELSE IF found = <<>> THEN NaN
        ELSE IF signed /\ Head(trimmed) = "-" THEN 0 - DecimalValue(found)
        ELSE DecimalValue(found)

\* isFinite(v)
isFinite(v) == ToNumber(v) \notin {NaN, Infinity}

\* typeof c === 'string' ? parseFloat(c) : c
Coerced(coordinate) ==
    IF coordinate.type = "string" THEN Num(parseFloat(coordinate.text)) ELSE coordinate

\* the predicate of points.filter
Keeps(element) ==
    /\ element # <<>>
    /\ element[1].latitude.type # "undefined"
    /\ element[1].longitude.type # "undefined"
    /\ LET lat == Coerced(element[1].latitude).value
           lng == Coerced(element[1].longitude).value
       IN  ~isNaN(lat) /\ ~isNaN(lng) /\ isFinite(lat) /\ isFinite(lng)

preparePointsForMapResult(points) ==
    IF points = <<>> \/ Len(points[1]) = 0 THEN <<>>
    ELSE LET validPoints == SelectSeq(points[1], Keeps)
             \* the function of .map
             WithNumbers(point) ==
                 [point EXCEPT !.latitude = Coerced(@), !.longitude = Coerced(@)]
         IN  [i \in DOMAIN validPoints |-> WithNumbers(validPoints[i][1])]

preparePointsForMap(points) ==
    /\ result = <<>>
    /\ result' = <<preparePointsForMapResult(points)>>
    /\ lastOp' = Call("preparePointsForMap", "done")
    /\ UNCHANGED <<variant, now, current, history, chrono, steps, given>>

\* points with numbers, with texts that hold a number, hold none or hold
\* Infinity, without latitude, with a null longitude (what JSON leaves of
\* a NaN), with NaN and with Infinity; and a null element
MapElements ==
    LET MapPoint(lat, lon) == [latitude |-> lat, longitude |-> lon, timestamp |-> 0]
    IN
    {<<MapPoint(Num(12), Num(0))>>,
     <<MapPoint(Str(<<"1", "2">>), Num(0))>>,
     <<MapPoint(Str(<<"7", "x">>), Str(<<" ", "-", "3">>))>>,
     <<MapPoint(Str(<<"x">>), Num(0))>>,
     <<MapPoint(Str(<<"I", "n", "f", "i", "n", "i", "t", "y">>), Num(0))>>,
     <<MapPoint(UndefinedValue, Num(0))>>,
     <<MapPoint(Num(0), NullValue)>>,
     <<MapPoint(Num(NaN), Num(0))>>,
     <<MapPoint(Num(24), Num(Infinity))>>,
     <<>>}

InitMap ==
    /\ variant = 3
    /\ now = 0
    /\ current = <<>>
    /\ history = <<>>
    /\ lastOp = Call("init", "done")
    /\ chrono = TRUE
    /\ steps = 0
    /\ isRecording = FALSE
    /\ isPaused = FALSE
    /\ watchId = Null
    /\ lateFix = FALSE
    /\ speedHistory = <<>>
    /\ timeLabels = <<>>
    /\ maxSpeed = 0
    /\ currentTrackRef = <<>>
    /\ heap = <<>>
    /\ arg = Null
    /\ cleaned = <<>>
    /\ given \in {<<>>} \cup {<<points>> : points \in SeqsUpTo(MapElements, MaxPoints)}
    /\ result = <<>>
    /\ playbackActive = FALSE
    /\ currentPointIndex = 0
    /\ playbackSpeed = 2
    /\ playbackTimer = Null
    /\ timeouts = <<>>

NextMap == preparePointsForMap(given) /\ UNCHANGED <<viewVars, cleanerVars, playVars>>

SpecMap == InitMap /\ [][NextMap]_vars

\* a coordinate that is there (neither undefined nor null) and, a text
\* being read as a number, finite
PresentAndFinite(coordinate) ==
    /\ coordinate.type \in {"number", "string"}
    /\ IF coordinate.type = "string"
       THEN parseFloat(coordinate.text) \notin NonNumbers
       ELSE coordinate.value \notin NonNumbers

IsNumeric(coordinate) ==
    coordinate.type = "number" /\ coordinate.value \notin NonNumbers

\* C30: preparePointsForMap keeps, in the order given, exactly the points
\* whose latitude and longitude are both present and, texts being coerced
\* to floating point, finite numbers; a point with a missing (undefined or
\* null), NaN or infinite coordinate is dropped, and every point returned
\* has a numeric latitude and longitude.
C30_MapPointsAreNumeric ==
    (lastOp.op = "preparePointsForMap" /\ given # <<>>) =>
       LET kept == SelectSeq(given[1],
                      LAMBDA element :
                         /\ element # <<>>
                         /\ PresentAndFinite(element[1].latitude)
                         /\ PresentAndFinite(element[1].longitude))
           out == result[1]
       IN  /\ Len(out) = Len(kept)
           /\ \A i \in DOMAIN out :
                 /\ IsNumeric(out[i].latitude) /\ IsNumeric(out[i].longitude)
                 /\ out[i].timestamp = kept[i][1].timestamp
                 /\ out[i].latitude.value =
                       IF kept[i][1].latitude.type = "string"
                       THEN parseFloat(kept[i][1].latitude.text)
                       ELSE kept[i][1].latitude.value

====
